---- MODULE Spec2Model ----
(***************************************************************************)
(* Model of the quantum-safe multi-signature wallet of src/src/main.rs:    *)
(* the QuantumSafeWallet struct (owners, threshold, signatures), its       *)
(* constructor, sign_transaction_with_hsm, verify_transaction, and the     *)
(* save_wallet / load_wallet pair working on wallet.json.                  *)
(*                                                                         *)
(* A process is in one of three states: "none" (started, no wallet built   *)
(* yet), "live" (a wallet exists) and "panicked" (an assert! or unwrap()   *)
(* failed and the process is gone).  wallet.json outlives the process.     *)
(*                                                                         *)
(* Spec lets a caller make any sequence of calls, MainSpec makes the calls *)
(* main makes, run after run, and ConcSpec lets two callers contribute to  *)
(* one wallet at the same time.                                            *)
(***************************************************************************)
EXTENDS Naturals, Sequences, FiniteSets, TLC

(* ------------------------------ bounds -------------------------------- *)

\* largest threshold handed to QuantumSafeWallet::new
MaxThreshold == 3

(* --------------------------- input domains ---------------------------- *)

\* identifiers that may be registered as owners
OwnerIds == {"Alice", "Bob"}

\* identifiers a caller may pass as `owner`; "Eve" is never registered
Callers == OwnerIds \cup {"Eve"}

\* message payloads
Msgs == {"m1", "m2"}

\* the message a wallet is meant to authorize (main.rs: `transaction`)
TxMsg == "m1"

\* messages handed to sign_transaction_with_hsm: its one caller passes
\* `transaction`
SignMsgs == {TxMsg}

\* PINs a caller may pass; the token accepts CorrectPin only
CorrectPin == "1234"

Pins == {CorrectPin, "0000"}

\* each owner's key pair, named by its public key (sphincs::keypair())
KeyOf(o) ==
    IF o = "Alice" THEN "pkAlice"
    ELSE IF o = "Bob" THEN "pkBob"
    ELSE IF o = "Charlie" THEN "pkCharlie"
    ELSE "pkOther"

\* key pairs the HSM slot may hold
HsmKeys == {KeyOf(o) : o \in OwnerIds}

\* the HSM call that answers with an error during one contribution
HsmFailures == {"none", "open_session", "login", "sign", "logout"}

\* owner maps handed to the constructor
OwnerMaps == {[o \in S |-> KeyOf(o)] : S \in SUBSET OwnerIds}

VARIABLES
    state,        \* "none" | "live" | "panicked"
    owners,       \* QuantumSafeWallet.owners: function owner id -> public key
    threshold,    \* QuantumSafeWallet.threshold
    signatures,   \* QuantumSafeWallet.signatures: set of <<owner id, signature>>
    file,         \* contents of wallet.json, a sequence of tokens
    hsmSession,   \* state of the session handle opened last: "none" | "open" | "authenticated" | "closed"
    last,         \* the last call: its arguments, outcome and backend operations
    contrib,      \* history: who contributed a valid signature to this wallet
    calls         \* per concurrent caller: how far its contribution has got

vars == <<state, owners, threshold, signatures, file, hsmSession, last, contrib, calls>>

(* ------------------------- external primitives ------------------------ *)

\* a signature is determined by the key pair that made it and the message
Signature(key, message) == [key |-> key, msg |-> message]

\* sphincs::verify(message, sig, pub_key).is_ok()
Verify(message, sig, pub_key) == sig = Signature(pub_key, message)

\* hsm.sign(session, message): the HSM signs with the key its slot holds
HsmSign(key, message) == Signature(key, message)

\* hsm.login(session, pin) succeeds for the token's PIN only
LoginOk(pin) == pin = CorrectPin

(* ------------------------------ HashMap ------------------------------- *)

HashMapKeys(m) == {e[1] : e \in m}

\* an insert that keeps the entry the key had
HashMapInsertDup(m, k, v) == m \cup {<<k, v>>}

\* HashMap::insert: the value stored under k is replaced
HashMapInsert(m, k, v) == {e \in m : e[1] # k} \cup {<<k, v>>}

(* ------------------------- QuantumSafeWallet -------------------------- *)

\* no assertion
NewAssertLoose(o, t) == TRUE

\* assert!(threshold <= owners.len())
NewAssert(o, t) == t <= Cardinality(DOMAIN o)

\* no membership check
OwnerKnownAlways(o, owner) == TRUE

\* if let Some(pub_key) = self.owners.get(owner)
OwnerKnown(o, owner) == owner \in DOMAIN o

\* a filter that checks the key and not the message
SigFilterKeyOnly(o, message, e) ==
    IF e[1] \in DOMAIN o THEN e[2].key = o[e[1]] ELSE FALSE

\* a filter that counts every entry of a registered owner
SigFilterPresence(o, message, e) == e[1] \in DOMAIN o

\* the closure of verify_transaction's filter, applied to one (owner, sig) entry
SigFilter(o, message, e) ==
    IF e[1] \in DOMAIN o THEN Verify(message, e[2], o[e[1]]) ELSE FALSE

\* self.signatures.iter().filter(..).count()
ValidSigs(o, sigs, message) == Cardinality({e \in sigs : SigFilter(o, message, e)})

\* a strict comparison
VerifyResultStrict(o, t, sigs, message) == ValidSigs(o, sigs, message) > t

\* valid_sigs >= self.threshold
VerifyResult(o, t, sigs, message) == ValidSigs(o, sigs, message) >= t

(* ---------------------------- serde_json ------------------------------ *)

NoSig == Signature("", "")

Token(t, k, pk, sig, n) == [t |-> t, k |-> k, pk |-> pk, sig |-> sig, n |-> n]

RECURSIVE SetToSeq(_)
\* the elements of a finite set, in a fixed order
SetToSeq(S) ==
    IF S = {} THEN <<>>
    ELSE LET x == CHOOSE y \in S : TRUE IN <<x>> \o SetToSeq(S \ {x})

\* serde_json::to_string(wallet): the three fields of the struct, in order
Serialize(o, t, sigs) ==
    LET os == SetToSeq(DOMAIN o)
        ss == SetToSeq(sigs)
    IN  <<Token("{", "", "", NoSig, 0)>>
        \o [i \in 1..Len(os) |-> Token("owner", os[i], o[os[i]], NoSig, 0)]
        \o <<Token("threshold", "", "", NoSig, t)>>
        \o [i \in 1..Len(ss) |-> Token("signature", ss[i][1], "", ss[i][2], 0)]
        \o <<Token("}", "", "", NoSig, 0)>>

\* index of the threshold token of a well-formed document, 0 if there is none
ThresholdAt(f) ==
    LET ok == {i \in 2..(Len(f) - 1) :
                  /\ f[i].t = "threshold"
                  /\ \A j \in 2..(i - 1) : f[j].t = "owner"
                  /\ \A j \in (i + 1)..(Len(f) - 1) : f[j].t = "signature"}
    IN  IF ok = {} THEN 0 ELSE CHOOSE i \in ok : TRUE

\* serde_json::from_str(&contents) is Ok: one complete object, nothing after it
Parses(f) ==
    /\ Len(f) >= 3
    /\ f[1].t = "{"
    /\ f[Len(f)].t = "}"
    /\ ThresholdAt(f) # 0

ParsedOwners(f) ==
    LET idx == 2..(ThresholdAt(f) - 1)
    IN  [o \in {f[j].k : j \in idx} |-> f[CHOOSE j \in idx : f[j].k = o].pk]

ParsedThreshold(f) == f[ThresholdAt(f)].n

ParsedSignatures(f) ==
    {<<f[j].k, f[j].sig>> : j \in (ThresholdAt(f) + 1)..(Len(f) - 1)}

\* OpenOptions::new().write(true).create(true) then write_all: the file is
\* not truncated, the bytes replace the beginning of what was there
WriteAll(f, bytes) == bytes \o SubSeq(f, Len(bytes) + 1, Len(f))

(* ------------------------------ history ------------------------------- *)

\* the record of one call: the operation, its arguments (owner and msg of a
\* contribution or query, n = owners.len() and t = threshold of a
\* construction), what it returned ("panic" when it did not return), the HSM
\* calls it made in order, the HSM call that answered with an error (if any)
\* and, for a contribution that reached the insert, how the entry the owner
\* had before relates to the new one ("absent", "same" or "different")
CallRecord(op, owner, msg, n, t, ret, ops, err, prev) ==
    [op |-> op, owner |-> owner, msg |-> msg, n |-> n, t |-> t,
     ret |-> ret, ops |-> ops, err |-> err, prev |-> prev]

Call(op, msg, ret) == CallRecord(op, "", msg, 0, 0, ret, <<>>, "", "")

NewCall(o, t, ret) == CallRecord("new", "", "", Cardinality(DOMAIN o), t, ret, <<>>, "", "")

SignCall(owner, msg, ret, ops, err, prev) ==
    CallRecord("sign", owner, msg, 0, 0, ret, ops, err, prev)

Prev(sigs, owner, sig) ==
    IF <<owner, sig>> \in sigs THEN "same"
    ELSE IF owner \in {e[1] : e \in sigs} THEN "different"
    ELSE "absent"

\* contrib.valid: the owners that have contributed a valid signature over
\* TxMsg to the wallet built by New; contrib.tracked is FALSE when the wallet
\* was loaded from the file or has been given a signature over another message
NoHistory == [tracked |-> FALSE, valid |-> {}]

FreshHistory == [tracked |-> TRUE, valid |-> {}]

Contributed(h, message, valid) ==
    IF ~h.tracked \/ message # TxMsg THEN NoHistory
    ELSE [h EXCEPT !.valid = @ \cup valid]

(* ------------------------- concurrent callers ------------------------- *)

\* callers that contribute to the same wallet at the same time
Threads == {"t1", "t2"}

\* a caller that has not called yet
IdleCall == [pc |-> "idle", owner |-> "", sig |-> NoSig, seen |-> {}]

\* no exclusion between callers
MutBorrowShared(c, t) == TRUE

\* sign_transaction_with_hsm(&mut self, ..): a call holds the wallet
\* exclusively from its start to its return, so it starts only when no other
\* call is under way
MutBorrow(c, t) == \A u \in Threads \ {t} : c[u].pc \in {"idle", "done", "panicked"}

(* ------------------------------- Init --------------------------------- *)

Init ==
    /\ state = "none"
    /\ owners = <<>>
    /\ threshold = 0
    /\ signatures = {}
    /\ file = <<>>
    /\ hsmSession = "none"
    /\ last = Call("start", "", "")
    /\ contrib = NoHistory
    /\ calls = [c \in Threads |-> IdleCall]

(* ------------------------------ actions ------------------------------- *)

\* QuantumSafeWallet::new(owners, threshold)
New(o, t) ==
    /\ state = "none"
    /\ IF NewAssert(o, t)
       THEN /\ state' = "live"
            /\ owners' = o
            /\ threshold' = t
            /\ signatures' = {}
            /\ contrib' = FreshHistory
            /\ last' = NewCall(o, t, "ok")
       ELSE /\ state' = "panicked"
            /\ UNCHANGED <<owners, threshold, signatures, contrib>>
            /\ last' = NewCall(o, t, "panic")
    /\ UNCHANGED <<file, hsmSession, calls>>

\* a contribution that inserts into the owner map
SignTransactionIntoOwners(owner, message, pin, failAt, key) ==
    /\ state = "live"
    /\ OwnerKnown(owners, owner)
    /\ owners' = [o \in DOMAIN owners |-> IF o = owner THEN key ELSE owners[o]]
    /\ last' = SignCall(owner, message, "unit",
                        <<"open_session", "login", "sign", "logout">>, "", "")
    /\ UNCHANGED <<state, threshold, signatures, file, hsmSession, contrib, calls>>

\* wallet.sign_transaction_with_hsm(owner, hsm, message, pin); failAt is the
\* HSM call that answers with an error, if any (login also fails on a wrong
\* PIN), key is the key pair the HSM slot holds
SignTransactionWithHsm(owner, message, pin, failAt, key) ==
    /\ state = "live"
    /\ UNCHANGED <<owners, threshold, file, calls>>
    /\ IF ~OwnerKnown(owners, owner)
       THEN \* nothing is done and nothing is reported
            /\ last' = SignCall(owner, message, "unit", <<>>, "", "")
            /\ UNCHANGED <<state, signatures, hsmSession, contrib>>
       ELSE IF failAt = "open_session"
       THEN \* hsm.open_session(..).unwrap() panics
            /\ last' = SignCall(owner, message, "panic", <<"open_session">>,
                                "open_session", "")
            /\ state' = "panicked"
            /\ hsmSession' = "none"
            /\ UNCHANGED <<signatures, contrib>>
       ELSE IF failAt = "login" \/ ~LoginOk(pin)
       THEN \* hsm.login(session, pin).unwrap() panics
            /\ last' = SignCall(owner, message, "panic", <<"open_session", "login">>,
                                "login", "")
            /\ state' = "panicked"
            /\ hsmSession' = "open"
            /\ UNCHANGED <<signatures, contrib>>
       ELSE IF failAt = "sign"
       THEN \* hsm.sign(session, message).unwrap() panics
            /\ last' = SignCall(owner, message, "panic",
                                <<"open_session", "login", "sign">>, "sign", "")
            /\ state' = "panicked"
            /\ hsmSession' = "authenticated"
            /\ UNCHANGED <<signatures, contrib>>
       ELSE LET sig == HsmSign(key, message)
                prev == Prev(signatures, owner, sig)
            IN  /\ signatures' = HashMapInsert(signatures, owner, sig)
                /\ IF failAt = "logout"
                   THEN \* hsm.logout(session).unwrap() panics
                        /\ last' = SignCall(owner, message, "panic",
                                            <<"open_session", "login", "sign", "logout">>,
                                            "logout", prev)
                        /\ state' = "panicked"
                        /\ hsmSession' = "authenticated"
                        /\ UNCHANGED contrib
                   ELSE \* the session is logged out and never closed
                        /\ last' = SignCall(owner, message, "unit",
                                            <<"open_session", "login", "sign", "logout">>,
                                            "", prev)
                        /\ state' = "live"
                        /\ hsmSession' = "open"
                        /\ contrib' = Contributed(contrib, message,
                                                  IF owner \in DOMAIN owners
                                                     /\ Verify(message, sig, owners[owner])
                                                  THEN {owner} ELSE {})

\* a query that panics when the signatures do not suffice
VerifyTransactionAsserting(message) ==
    /\ state = "live"
    /\ IF VerifyResult(owners, threshold, signatures, message)
       THEN /\ last' = Call("verify", message, "true")
            /\ UNCHANGED state
       ELSE /\ last' = Call("verify", message, "panic")
            /\ state' = "panicked"
    /\ UNCHANGED <<owners, threshold, signatures, file, hsmSession, contrib, calls>>

\* wallet.verify_transaction(message)
VerifyTransaction(message) ==
    /\ state = "live"
    /\ last' = Call("verify", message,
                    IF VerifyResult(owners, threshold, signatures, message)
                    THEN "true" ELSE "false")
    /\ UNCHANGED <<state, owners, threshold, signatures, file, hsmSession, contrib, calls>>

\* save_wallet(&wallet)
SaveWallet ==
    /\ state = "live"
    /\ file' = WriteAll(file, Serialize(owners, threshold, signatures))
    /\ last' = Call("save", "", "unit")
    /\ UNCHANGED <<state, owners, threshold, signatures, hsmSession, contrib, calls>>

\* wallet = load_wallet()
LoadWallet ==
    /\ state \in {"none", "live"}
    /\ IF Len(file) > 0 /\ Parses(file)
       THEN /\ state' = "live"
            /\ owners' = ParsedOwners(file)
            /\ threshold' = ParsedThreshold(file)
            /\ signatures' = ParsedSignatures(file)
            /\ contrib' = NoHistory
            /\ last' = Call("load", "", "ok")
       ELSE /\ state' = "panicked"
            /\ UNCHANGED <<owners, threshold, signatures, contrib>>
            /\ last' = Call("load", "", "panic")
    /\ UNCHANGED <<file, hsmSession, calls>>

\* the process ends (normally or by the panic) and the program is run again
ProcessStart ==
    /\ state # "none"
    /\ state' = "none"
    /\ owners' = <<>>
    /\ threshold' = 0
    /\ signatures' = {}
    /\ hsmSession' = "none"
    /\ contrib' = NoHistory
    /\ last' = Call("start", "", "")
    /\ UNCHANGED <<file, calls>>

Next ==
    \/ \E o \in OwnerMaps, t \in 0..MaxThreshold : New(o, t)
    \/ \E owner \in Callers, message \in SignMsgs, pin \in Pins,
          failAt \in HsmFailures, key \in HsmKeys :
          SignTransactionWithHsm(owner, message, pin, failAt, key)
    \/ \E message \in Msgs : VerifyTransaction(message)
    \/ SaveWallet
    \/ LoadWallet
    \/ ProcessStart

Spec == Init /\ [][Next]_vars

(* ------------------------------- main --------------------------------- *)

\* the owner map main builds: Alice, Bob and Charlie with fresh key pairs
MainOwners == [o \in {"Alice", "Bob", "Charlie"} |-> KeyOf(o)]

\* values of --sign
MainCallers == DOMAIN MainOwners \cup {"Eve"}

\* a threshold one signature meets
MainThresholdOne == 2 - 1

\* QuantumSafeWallet::new(owners, 2)
MainThreshold == 2

\* let mut wallet = QuantumSafeWallet::new(owners, 2)
MainConstruct ==
    /\ last.op = "start"
    /\ New(MainOwners, MainThreshold)

\* --sign given: Ctx::new(..).unwrap() panics
MainHsmUnavailable ==
    /\ state = "live"
    /\ last.op = "new"
    /\ state' = "panicked"
    /\ last' = Call("ctx", "", "panic")
    /\ UNCHANGED <<owners, threshold, signatures, file, hsmSession, contrib, calls>>

\* --sign given: wallet.sign_transaction_with_hsm(owner, &hsm, transaction, hsm_pin)
MainSign(owner, failAt, key) ==
    /\ last.op = "new"
    /\ SignTransactionWithHsm(owner, TxMsg, CorrectPin, failAt, key)

\* --sign given: save_wallet(&wallet)
MainSave ==
    /\ last.op = "sign"
    /\ SaveWallet

\* --verify given: wallet.verify_transaction(transaction) and the println!
MainVerify ==
    /\ last.op \in {"new", "save"}
    /\ VerifyTransaction(TxMsg)

\* main returns or the process has panicked, and the program is run again
MainExit ==
    /\ \/ state = "panicked"
       \/ last.op \in {"new", "save", "verify"}
    /\ ProcessStart

MainNext ==
    \/ MainConstruct
    \/ MainHsmUnavailable
    \/ \E owner \in MainCallers, failAt \in HsmFailures, key \in HsmKeys :
          MainSign(owner, failAt, key)
    \/ MainSave
    \/ MainVerify
    \/ MainExit

MainSpec == Init /\ [][MainNext]_vars

(* ----------------------- concurrent contributions --------------------- *)

\* caller t enters sign_transaction_with_hsm(owner, ..): the membership
\* check and the HSM calls up to hsm.sign
ConcBegin(t, owner, pin, failAt, key) ==
    /\ state = "live"
    /\ calls[t].pc = "idle"
    /\ MutBorrow(calls, t)
    /\ calls' = [calls EXCEPT ![t] =
                   IF ~OwnerKnown(owners, owner)
                   THEN [pc |-> "done", owner |-> owner, sig |-> NoSig, seen |-> {}]
                   ELSE IF failAt \in {"open_session", "login", "sign"} \/ ~LoginOk(pin)
                   THEN [pc |-> "panicked", owner |-> owner, sig |-> NoSig, seen |-> {}]
                   ELSE [pc |-> "signed", owner |-> owner,
                         sig |-> HsmSign(key, TxMsg), seen |-> {}]]
    /\ UNCHANGED <<state, owners, threshold, signatures, file, hsmSession, last, contrib>>

\* self.signatures.insert(..), first half: the map is read
ConcInsertRead(t) ==
    /\ calls[t].pc = "signed"
    /\ calls' = [calls EXCEPT ![t].pc = "read", ![t].seen = signatures]
    /\ UNCHANGED <<state, owners, threshold, signatures, file, hsmSession, last, contrib>>

\* self.signatures.insert(..), second half: the map with the entry is stored
ConcInsertWrite(t) ==
    /\ calls[t].pc = "read"
    /\ signatures' = HashMapInsert(calls[t].seen, calls[t].owner, calls[t].sig)
    /\ calls' = [calls EXCEPT ![t].pc = "inserted", ![t].seen = {}]
    /\ UNCHANGED <<state, owners, threshold, file, hsmSession, last, contrib>>

\* hsm.logout(session).unwrap() and the return
ConcFinish(t, logoutOk) ==
    /\ calls[t].pc = "inserted"
    /\ calls' = [calls EXCEPT ![t].pc = IF logoutOk THEN "done" ELSE "panicked"]
    /\ UNCHANGED <<state, owners, threshold, signatures, file, hsmSession, last, contrib>>

ConcNext ==
    \/ \E o \in OwnerMaps, t \in 0..MaxThreshold : New(o, t)
    \/ \E t \in Threads, owner \in Callers, pin \in Pins,
          failAt \in HsmFailures \ {"logout"}, key \in HsmKeys :
          ConcBegin(t, owner, pin, failAt, key)
    \/ \E t \in Threads : ConcInsertRead(t)
    \/ \E t \in Threads : ConcInsertWrite(t)
    \/ \E t \in Threads, logoutOk \in BOOLEAN : ConcFinish(t, logoutOk)

ConcSpec == Init /\ [][ConcNext]_vars

(* ------------------------------ claims -------------------------------- *)

\* the owners whose ledger entry is a signature of message m under the
\* public key the registry holds for them
ValidOwnersOf(o, sigs, m) ==
    {w \in DOMAIN o : \E e \in sigs : e[1] = w /\ e[2] = Signature(o[w], m)}

ValidOwners(m) == ValidOwnersOf(owners, signatures, m)

\* C1: whenever the authorization query has just answered for a message, the
\* answer is true exactly when the number of registered owners whose ledger
\* entry verifies for that message under their registered key is at least
\* the threshold.
C1_AuthorizedIffThresholdMet ==
    last.op = "verify" =>
        (last.ret = "true" <=> Cardinality(ValidOwners(last.msg)) >= threshold)

C1_Witness ==
    /\ last.op = "verify"
    /\ last.ret = "true"
    /\ threshold = 2
    /\ Cardinality(signatures) = 2

\* C2: after contributions over the transaction message in which exactly k
\* distinct registered owners have contributed a valid signature, the
\* authorization query answers true if k >= threshold and false otherwise.
C2_KContributorsDecide ==
    (last.op = "verify" /\ last.msg = TxMsg /\ contrib.tracked) =>
        (last.ret = "true" <=> Cardinality(contrib.valid) >= threshold)

\* C3: a construction from n owners and a threshold t succeeds if and only
\* if n >= 1 and 1 <= t <= n; otherwise it fails and no wallet exists.
C3_ConstructIffThresholdInRange ==
    last.op = "new" =>
        /\ last.ret = "ok" <=> (last.n >= 1 /\ 1 <= last.t /\ last.t <= last.n)
        /\ last.ret # "ok" => state # "live"

\* C4: a contribution records a signature only if it verifies for the
\* contributed message under the contributing owner's registered key.
C4_VerifiedBeforeRecorded ==
    [][last'.op = "sign" =>
         \A e \in signatures' \ signatures : Verify(last'.msg, e[2], owners'[e[1]])]_vars

\* C5: when a contribution that opened a session has ended, on any exit
\* path, that session is neither authenticated nor open.
C5_SessionReleased ==
    (last.op = "sign" /\ last.ops # <<>>) => hsmSession \in {"none", "closed"}

\* C6: a contribution naming an identifier that is not in the registry
\* returns the error UnknownOwner to its caller.
C6_UnknownOwnerReported ==
    (last.op = "sign" /\ last.owner \notin DOMAIN owners) => last.ret = "UnknownOwner"

\* C7: a contribution naming an identifier that is not in the registry
\* leaves the ledger, the owner map and the threshold as they were and
\* makes no HSM call: no session is opened, no login, no sign.
C7_UnknownOwnerNoEffect ==
    [][(last'.op = "sign" /\ last'.owner \notin DOMAIN owners) =>
         /\ UNCHANGED <<owners, threshold, signatures, hsmSession>>
         /\ last'.ops = <<>>]_vars

C7_Witness ==
    /\ last.op = "sign"
    /\ last.owner \notin DOMAIN owners
    /\ last.ops = <<>>
    /\ Cardinality(signatures) = 1
    /\ hsmSession = "open"

\* C8: when session open, login or sign fails during a contribution, the
\* contribution returns the error BackendFailure, the process lives on and
\* the ledger is what it was before the call.
C8_BackendFailureReturned ==
    [][(last'.op = "sign" /\ last'.err \in {"open_session", "login", "sign"}) =>
         /\ last'.ret = "BackendFailure"
         /\ state' = "live"
         /\ signatures' = signatures]_vars

\* C9: every owner identifier that is a key of the ledger is a key of the
\* owner map.
C9_LedgerKeysRegistered == HashMapKeys(signatures) \subseteq DOMAIN owners

C9_Witness ==
    /\ last.op = "load"
    /\ last.ret = "ok"
    /\ Cardinality(signatures) = 2
    /\ Cardinality(DOMAIN owners) = 2

\* C10: after a contribution the ledger holds exactly one entry for the
\* contributing owner and the entries of the other owners are what they
\* were; when the HSM returned the signature the owner's entry already
\* held, the ledger is what it was before the call.
C10_ContributionReplaces ==
    [][(last'.op = "sign" /\ last'.prev # "") =>
         /\ Cardinality({e \in signatures' : e[1] = last'.owner}) = 1
         /\ {e \in signatures' : e[1] # last'.owner}
              = {e \in signatures : e[1] # last'.owner}
         /\ last'.prev = "same" => signatures' = signatures]_vars

C10_Witness ==
    /\ last.op = "sign"
    /\ last.ret = "unit"
    /\ last.prev = "same"
    /\ Cardinality(signatures) = 2

\* C11: a query for a message counts no ledger entry recorded for another
\* message: when no entry was made over the queried message, the answer is
\* that of an empty valid count, whatever verifies for other messages.
C11_OtherMessageNotCounted ==
    (last.op = "verify" /\ \A e \in signatures : e[2].msg # last.msg) =>
        (last.ret = "true" <=> threshold = 0)

C11_Witness ==
    /\ last.op = "verify"
    /\ last.msg # TxMsg
    /\ last.ret = "false"
    /\ threshold = 2
    /\ Cardinality(ValidOwners(TxMsg)) = 2

\* C12: when exactly threshold >= 1 owners have contributed a valid
\* signature and the entry of one of them has since been changed to a
\* signature that does not verify, the query answers false.
C12_TamperedEntryExcluded ==
    (/\ last.op = "verify"
     /\ last.msg = TxMsg
     /\ contrib.tracked
     /\ threshold >= 1
     /\ Cardinality(contrib.valid) = threshold
     /\ contrib.valid \ ValidOwners(TxMsg) # {}) => last.ret = "false"

C12_Witness ==
    /\ last.op = "verify"
    /\ last.msg = TxMsg
    /\ contrib.tracked
    /\ threshold = 2
    /\ contrib.valid = {"Alice", "Bob"}
    /\ Cardinality(ValidOwners(TxMsg)) = 1
    /\ Cardinality(signatures) = 2
    /\ last.ret = "false"

\* C13: load_wallet right after save_wallet(w) yields a wallet with the
\* owner map, the threshold and the ledger of w, whatever the file held.
C13_SaveLoadRoundTrip ==
    [][(last.op = "save" /\ last'.op = "load") =>
         /\ last'.ret = "ok"
         /\ state' = "live"
         /\ UNCHANGED <<owners, threshold, signatures>>]_vars

\* C15: no contribution and no query, successful or not, changes the owner
\* map or the threshold.
C15_RegistryImmutable ==
    [][last'.op \in {"sign", "verify"} => UNCHANGED <<owners, threshold>>]_vars

C15_Witness ==
    /\ last.op = "sign"
    /\ last.ret = "unit"
    /\ last.prev = "different"
    /\ Cardinality(DOMAIN owners) = 2
    /\ threshold = 2

\* C16: in every live wallet state the query can be made for every message;
\* it answers true or false, the process lives on, and the ledger, the owner
\* map and the threshold are what they were.
C16_QueryNeverFails ==
    /\ [](state = "live" => \A m \in Msgs : ENABLED VerifyTransaction(m))
    /\ [][last'.op = "verify" =>
            /\ last'.ret \in {"true", "false"}
            /\ state' = "live"
            /\ UNCHANGED <<owners, threshold, signatures>>]_vars

C16_Witness ==
    /\ last.op = "verify"
    /\ last.ret = "false"
    /\ state = "live"
    /\ threshold = 2
    /\ Cardinality(signatures) = 1

\* C17: a live wallet never has a threshold above its owner count, and a
\* contribution of a valid signature by a registered owner who has no valid
\* entry raises the number of owners with valid entries by exactly one: an
\* unauthorized wallet can always be brought to the threshold.
C17_NoTerminalRejection ==
    /\ [](state = "live" => threshold <= Cardinality(DOMAIN owners))
    /\ [](state = "live" =>
            \A o \in DOMAIN owners :
                ENABLED SignTransactionWithHsm(o, TxMsg, CorrectPin, "none", owners[o]))
    /\ [][(/\ last'.op = "sign"
           /\ last'.ret = "unit"
           /\ last'.owner \in DOMAIN owners
           /\ last'.owner \notin ValidOwners(last'.msg)
           /\ <<last'.owner, Signature(owners[last'.owner], last'.msg)>> \in signatures') =>
            Cardinality(ValidOwnersOf(owners', signatures', last'.msg))
              = Cardinality(ValidOwners(last'.msg)) + 1]_vars

C17_Witness ==
    /\ last.op = "sign"
    /\ last.ret = "unit"
    /\ last.prev = "different"
    /\ threshold = 2
    /\ Cardinality(ValidOwners(TxMsg)) = 2

\* C18: in every state in which the ledger has no entry, the query answers
\* false.
C18_EmptyNeverAuthorized ==
    (last.op = "verify" /\ signatures = {}) => last.ret = "false"

\* C19: in every run of main, and after any number of earlier runs, the
\* wallet is never loaded from the file, its ledger holds at most one entry,
\* and the query answers false ("Transaction Rejected!").
C19_MainNeverApproves ==
    /\ last.op # "load"
    /\ Cardinality(signatures) <= 1
    /\ last.op = "verify" => last.ret = "false"

C19_Witness ==
    /\ last.op = "verify"
    /\ last.ret = "false"
    /\ Cardinality(ValidOwners(TxMsg)) = 1
    /\ Parses(file)
    /\ ParsedSignatures(file) = signatures

\* C14: when two callers have contributed for two distinct registered owners
\* at the same time, the ledger holds the entry of each of them, one entry
\* per owner and nothing else.
C14_BothContributionsKept ==
    \A t, u \in Threads :
        (/\ calls[t].pc = "done" /\ calls[t].sig # NoSig
         /\ calls[u].pc = "done" /\ calls[u].sig # NoSig
         /\ calls[t].owner # calls[u].owner) =>
            signatures = {<<calls[t].owner, calls[t].sig>>, <<calls[u].owner, calls[u].sig>>}

C14_Witness ==
    /\ calls["t1"].pc = "done"
    /\ calls["t2"].pc = "done"
    /\ calls["t1"].owner = "Bob"
    /\ calls["t2"].owner = "Alice"
    /\ Cardinality(signatures) = 2

====
